---- MODULE Spec2Model ----
(***************************************************************************)
(* Feller Wiser integration: the websocket supervisor (main.py), the event *)
(* router and the entity registry (main.py), the push-update entry points  *)
(* of the three entity kinds (light.py, cover.py, climate.py) and the      *)
(* retrying read of the API client (feller_client.py).                     *)
(*                                                                         *)
(* A Python dict is a function whose DOMAIN is the dict's key set, so      *)
(* `"load" in message` is `"load" \in DOMAIN message`.                     *)
(* A float is kept exact as a scaled integer: a cover position is held in  *)
(* hundredths (100 - level/100 is 10000 - level hundredths), a light       *)
(* brightness in units of 1/3922 (bri / 39.22 is 100 * bri such units).    *)
(***************************************************************************)
EXTENDS Integers, Sequences, FiniteSets, TLC

VARIABLES
    WISER_ENTITIES, \* main.py:14, the registry: a sequence of entity objects
    pc,             \* position of establish_websocket / _handle_websocket_message
    connects,       \* number of websockets.connect calls made so far
    session,        \* the connection held by `async with` (its connect number), 0 if none
    alive,          \* whether the peer end of the held connection is still open
    waited,         \* the asyncio.sleep durations since the last connect call
    event,          \* what the last supervisor step observed
    raised,         \* the exception the last step let escape to the outer loop
    invoked,        \* registry index whose push-update the last step called, 0 if none
    notified,       \* registry indexes that called schedule_update_ha_state in the last step
    received,       \* the envelope the last step decoded, {} if it decoded none
    rpc,            \* position of _send_request_with_retry_async
    endpoint,       \* its endpoint argument
    retry_count,    \* its retry_count argument
    i,              \* its loop variable
    requests,       \* number of _send_request_async calls it has made
    failures,       \* number of those that raised FellerApiException
    slept,          \* total of its asyncio.sleep durations
    delay_before,   \* the sleep made between the previous request and the current one
    response,       \* the answer to its last request
    outcome,        \* how the call ended
    operation,      \* the FellerApiClient method in progress, "none" if none
    method,         \* the HTTP method of its requests
    co,             \* the entity coroutine in flight: its method, entity and position
    reply,          \* what the API client call it awaited last gave back
    setup,          \* position of the integration's async_setup_entry
    platforms,      \* position of each platform's async_setup_entry
    tasks,          \* number of supervisor tasks created, none of them ever cancelled
    generation      \* for each entity of the registry, the setup that registered it

supervisorVars ==
    <<pc, connects, session, alive, waited, event, raised, invoked, notified, received>>
retryVars ==
    <<rpc, endpoint, retry_count, i, requests, failures, slept, delay_before, response,
      outcome>>
clientVars == <<operation, method>>
entityVars == <<co, reply>>
setupVars == <<setup, platforms, tasks, generation>>
otherVars == <<clientVars, entityVars, setupVars>>
vars == <<WISER_ENTITIES, supervisorVars, retryVars, clientVars, entityVars, setupVars>>

----------------------------------------------------------------------------
(* Bounds of the model *)

\* connect calls the supervisor may make
MaxConnects == 2
\* sleeps recorded between two connect calls
MaxWaits == 2
\* largest retry_count a caller passes (the default is 5)
MaxRetryCount == 5
MaxSetups == 2

----------------------------------------------------------------------------
(* Values *)

\* Python's None, where the other values of the field are non-negative numbers
None == -1

Restrict(d, keys) == [k \in keys |-> d[k]]

\* the vendor's device identifiers
Ids == {1, 2}

\* vendor cover levels, 0 = open, 10000 = closed
Levels == {0, 2500, 10000}
Movings == {"up", "down", "stop"}
\* vendor brightness values (None is JSON null)
Bris == {None, 0, 5000}

\* HVAC values in push events
AmbientTemperatures == {19}
TargetTemperatures == {21}
HeatingCoolingLevels == {0, 40}

EmptyDict == Restrict([x |-> 0], {})

----------------------------------------------------------------------------------------------------------------------------------------
(* Push envelopes the vendor may send: the complete ones, and the ones     *)
(* lacking keys the code reads, at each level of the envelope              *)

\* a dict with all of `keys`, with one of them missing, and with none
Lacking(d, keys) == {d} \cup {Restrict(d, keys \ {k}) : k \in keys} \cup {EmptyDict}

CoverStates ==
    [level : Levels, moving : Movings]
    \cup Lacking([level |-> 2500, moving |-> "up"], {"level", "moving"})

Flags == {EmptyDict, [fading |-> 0], [fading |-> 1]}

LightStates ==
    [bri : Bris]
    \cup [bri : {5000}, flags : Flags]
    \cup {[bri |-> 0, flags |-> [fading |-> 1]], [flags |-> [fading |-> 1]],
          [flags |-> [fading |-> 0]]}

HvacStateKeys == {"ambient_temperature", "target_temperature", "on", "heating_cooling_level"}

HvacStates ==
    [ambient_temperature : AmbientTemperatures, target_temperature : TargetTemperatures,
     on : BOOLEAN, heating_cooling_level : HeatingCoolingLevels]
    \cup Lacking([ambient_temperature |-> 19, target_temperature |-> 21, on |-> TRUE,
                  heating_cooling_level |-> 40], HvacStateKeys)

\* an object under `load` or `hvacgroup`: complete, or lacking id, state or both
Objects(states) ==
    {[id |-> n, state |-> s] : n \in Ids, s \in states}
    \cup {[id |-> n] : n \in Ids}
    \cup {[state |-> s] : s \in {CHOOSE c \in states : DOMAIN c # {}}}
    \cup {EmptyDict}

LoadObjects == Objects(CoverStates \cup LightStates)

HvacGroupObjects == Objects(HvacStates)

\* objects without a state, for the envelopes that carry both keys
BareObjects == {[id |-> 1], EmptyDict}

Messages ==
    {EmptyDict}
    \cup {[load |-> l] : l \in LoadObjects}
    \cup {[hvacgroup |-> g] : g \in HvacGroupObjects}
    \cup {[load |-> l, hvacgroup |-> g] : l \in BareObjects, g \in BareObjects}

----------------
(* Entities *)

FellerCover(data) ==
    [kind |-> "cover", wiser_id |-> data.id, state |-> "None", position |-> None,
     is_opening |-> FALSE, is_closing |-> FALSE, is_opened |-> FALSE,
     is_closed |-> FALSE, is_partially_opened |-> FALSE]

FellerLight(data) ==
    [kind |-> "light", wiser_id |-> data.id, type |-> data.type,
     is_on |-> "None", brightness |-> None]

FellerHvacGroup(group) ==
    [kind |-> "climate", wiser_id |-> group.id,
     current_temperature |-> None, target_temperature |-> None,
     hvac_mode |-> "None", hvac_action |-> "None",
     min_temp |-> None, max_temp |-> None]

\* the result of a synchronous method: the object afterwards, the exception it
\* raised ("none" if it returned) and whether it called schedule_update_ha_state
Return(self) == [entity |-> self, raised |-> "none", notified |-> FALSE]
Notify(self) == [entity |-> self, raised |-> "none", notified |-> TRUE]
Raise(self, exc) == [entity |-> self, raised |-> exc, notified |-> FALSE]

\* cover.py:180-188 (and 133-141)
CoverMoving(self, moving) ==
    CASE moving = "stop" -> [self EXCEPT !.is_closing = FALSE, !.is_opening = FALSE]
      [] moving = "up"   -> [self EXCEPT !.is_closing = FALSE, !.is_opening = TRUE]
      [] moving = "down" -> [self EXCEPT !.is_closing = TRUE, !.is_opening = FALSE]
      [] OTHER -> self

\* the thresholds compared strictly: > 100 and < 0
CoverThresholds_Strict(self) ==
    IF self.position > 10000
    THEN [self EXCEPT !.is_closed = FALSE, !.is_opened = TRUE,
                      !.is_partially_opened = FALSE]
    ELSE IF self.position < 0
    THEN [self EXCEPT !.is_closed = TRUE, !.is_opened = FALSE,
                      !.is_partially_opened = FALSE]
    ELSE [self EXCEPT !.is_closed = FALSE, !.is_opened = FALSE,
                      !.is_partially_opened = TRUE]

\* cover.py:190-201 (and 143-154); the position is in hundredths
CoverThresholds(self) ==
    IF self.position >= 10000
    THEN [self EXCEPT !.is_closed = FALSE, !.is_opened = TRUE,
                      !.is_partially_opened = FALSE]
    ELSE IF self.position <= 0
    THEN [self EXCEPT !.is_closed = TRUE, !.is_opened = FALSE,
                      !.is_partially_opened = FALSE]
    ELSE [self EXCEPT !.is_closed = FALSE, !.is_opened = FALSE,
                      !.is_partially_opened = TRUE]

\* the cover's update without the check for `state` of cover.py:168-173
FellerCover_update_NoStateCheck(self, message) ==
    IF "load" \notin DOMAIN message THEN Return(self)
    ELSE IF "state" \notin DOMAIN message.load THEN Raise(self, "KeyError")
    ELSE LET st == message.load.state IN
         IF "level" \notin DOMAIN st THEN Raise(self, "KeyError")
         ELSE IF "moving" \notin DOMAIN st THEN Raise(self, "KeyError")
         ELSE Notify(CoverThresholds(CoverMoving(
                  [self EXCEPT !.position = 10000 - st.level], st.moving)))

FellerCover_update_from_websocket_message(self, message) ==
    IF "load" \notin DOMAIN message THEN Return(self)
    ELSE IF "state" \notin DOMAIN message.load THEN Return(self)
    ELSE LET st == message.load.state IN
         IF "level" \notin DOMAIN st THEN Raise(self, "KeyError")
         ELSE IF "moving" \notin DOMAIN st THEN Raise(self, "KeyError")
         ELSE Notify(CoverThresholds(CoverMoving(
                  [self EXCEPT !.position = 10000 - st.level], st.moving)))

\* the check for the fading flag left out
LightFading_Ignored(st) == FALSE

\* light.py:166-171: the fading flag, a missing key being passed over
LightFading(st) ==
    /\ "flags" \in DOMAIN st
    /\ "fading" \in DOMAIN st.flags
    /\ st.flags.fading = 1

FellerLight_update_from_websocket_message(self, message) ==
    IF "load" \notin DOMAIN message THEN Return(self)
    ELSE IF "state" \notin DOMAIN message.load THEN Return(self)
    ELSE LET st == message.load.state IN
         IF LightFading(st) THEN Return(self)
         ELSE IF "bri" \notin DOMAIN st THEN Return(self)
         ELSE IF st.bri = None
              THEN Notify([self EXCEPT !.brightness = 0, !.is_on = "False"])
         ELSE IF st.bri = 0
              THEN Notify([self EXCEPT !.is_on = "False", !.brightness = 0])
         ELSE Notify([self EXCEPT !.brightness = 100 * st.bri, !.is_on = "True"])

\* climate.py:175-189: the assignments in order, each read of a missing key
\* raising KeyError after the assignments before it
FellerHvacGroup_update_from_state(self, st) ==
    IF "ambient_temperature" \notin DOMAIN st THEN Raise(self, "KeyError")
    ELSE LET s1 == [self EXCEPT !.current_temperature = st.ambient_temperature] IN
    IF "target_temperature" \notin DOMAIN st THEN Raise(s1, "KeyError")
    ELSE LET s2 == [s1 EXCEPT !.target_temperature = st.target_temperature] IN
    IF "on" \notin DOMAIN st THEN Raise(s2, "KeyError")
    ELSE LET s3 == [s2 EXCEPT !.hvac_mode = IF st.on THEN "heat" ELSE "off"] IN
    IF "heating_cooling_level" \notin DOMAIN st THEN Raise(s3, "KeyError")
    ELSE Return([s3 EXCEPT !.hvac_action =
                    IF st.heating_cooling_level > 0 THEN "heating" ELSE "idle"])

FellerHvacGroup_update_from_websocket_message(self, message) ==
    IF "hvacgroup" \notin DOMAIN message THEN Return(self)
    ELSE IF "state" \notin DOMAIN message.hvacgroup THEN Return(self)
    ELSE LET r == FellerHvacGroup_update_from_state(self, message.hvacgroup.state) IN
         IF r.raised # "none" THEN r ELSE Notify(r.entity)

\* the method the object's class binds
update_from_websocket_message(self, message) ==
    CASE self.kind = "cover" -> FellerCover_update_from_websocket_message(self, message)
      [] self.kind = "light" -> FellerLight_update_from_websocket_message(self, message)
      [] self.kind = "climate" ->
            FellerHvacGroup_update_from_websocket_message(self, message)

----------------------------------------------------------------------------
(* The registry as the platform setups leave it *)

\* the vendor's devices, as GET loads and GET hvacgroups list them: each
\* load once, a motor or a light channel; group identifiers are numbered
\* apart from load identifiers, so the two may coincide
Motor(n) == [id |-> n, type |-> "motor", unused |-> FALSE]
Light(n, type) == [id |-> n, type |-> type, unused |-> FALSE]
Unused(n, type) == [id |-> n, type |-> type, unused |-> TRUE]
Group(n) == [id |-> n]

Inventories ==
    { [loads |-> <<>>, groups |-> <<>>],
      [loads |-> <<Motor(1)>>, groups |-> <<>>],
      [loads |-> <<Light(1, "dim")>>, groups |-> <<>>],
      [loads |-> <<Motor(1), Light(2, "onoff")>>, groups |-> <<>>],
      [loads |-> <<Motor(1)>>, groups |-> <<Group(1)>>],
      [loads |-> <<Light(1, "dim")>>, groups |-> <<Group(1)>>],
      [loads |-> <<Unused(1, "dali"), Motor(2)>>, groups |-> <<Group(1)>>] }

IsUsedMotor(value) == value.type = "motor" /\ ~value.unused
IsUsedLight(value) == value.type \in {"dim", "dali", "onoff"} /\ ~(value.unused = TRUE)

\* cover.py:29-34
cover_entries(loads) ==
    LET used == SelectSeq(loads, IsUsedMotor)
    IN  [k \in 1..Len(used) |-> FellerCover(used[k])]
\* light.py:25-30
light_entities(loads) ==
    LET used == SelectSeq(loads, IsUsedLight)
    IN  [k \in 1..Len(used) |-> FellerLight(used[k])]
\* climate.py:31-33
climate_entities(groups) == [k \in 1..Len(groups) |-> FellerHvacGroup(groups[k])]

PlatformEntities(platform, loads, groups) ==
    CASE platform = "cover" -> cover_entries(loads)
      [] platform = "light" -> light_entities(loads)
      [] platform = "climate" -> climate_entities(groups)

\* __init__.py:20: the platforms are set up concurrently, each extending the
\* registry when its own GET returns, so in any order
PLATFORMS == {"cover", "light", "climate"}
SetupOrders == {o \in [1..3 -> PLATFORMS] : \A a, b \in 1..3 : a # b => o[a] # o[b]}

Registries ==
    {PlatformEntities(o[1], v.loads, v.groups) \o PlatformEntities(o[2], v.loads, v.groups)
        \o PlatformEntities(o[3], v.loads, v.groups) :
        o \in SetupOrders, v \in Inventories}

----------------------------------------------------------------------------
(* Event router, main.py:59-88 *)

get_wiser_entity_id(message) ==
    IF "load" \in DOMAIN message
    THEN IF "id" \notin DOMAIN message.load THEN None ELSE message.load.id
    ELSE IF "hvacgroup" \in DOMAIN message
    THEN IF "id" \notin DOMAIN message.hvacgroup THEN None ELSE message.hvacgroup.id
    ELSE None

\* the comparison of line 64 left out: every registered entity matches
Matching_Any(entities, wiser_entity_id) == 1..Len(entities)

\* main.py:64: the registry indexes of the entities with this identifier
Matching(entities, wiser_entity_id) ==
    {k \in 1..Len(entities) : entities[k].wiser_id = wiser_entity_id}

First(S) == CHOOSE k \in S : \A j \in S : k <= j

\* main.py:59-72: the registry afterwards, the exception raised, the index of
\* the entity whose update was called and the indexes that notified the host
route(entities, message) ==
    LET wiser_entity_id == get_wiser_entity_id(message)
        entity == Matching(entities, wiser_entity_id)
        skip == [entities |-> entities, raised |-> "none", invoked |-> 0,
                 notified |-> {}]
    IN  IF wiser_entity_id = None THEN skip
        ELSE IF entity = {} THEN skip
        ELSE LET k == First(entity)
                 r == update_from_websocket_message(entities[k], message)
             IN  [entities |-> [entities EXCEPT ![k] = r.entity],
                  raised |-> r.raised, invoked |-> k,
                  notified |-> IF r.notified THEN {k} ELSE {}]

----------------------------------------------------------------------------
(* Connection supervisor, main.py:17-57 *)

\* seconds of the reconnect delay
RetryDelay == 10

NoDispatch == invoked' = 0 /\ notified' = {} /\ received' = EmptyDict

\* main.py:23-29: the handshake succeeds, the receive loop starts
ConnectOk ==
    /\ pc = "connect" /\ connects < MaxConnects
    /\ connects' = connects + 1 /\ session' = connects + 1 /\ alive' = TRUE
    /\ waited' = <<>> /\ pc' = "recv"
    /\ event' = "connected" /\ raised' = "none" /\ NoDispatch
    /\ UNCHANGED <<WISER_ENTITIES, retryVars, otherVars>>

\* main.py:23, 31-32: name resolution fails
ConnectGaierror ==
    /\ pc = "connect" /\ connects < MaxConnects
    /\ connects' = connects + 1 /\ session' = 0 /\ alive' = FALSE
    /\ waited' = <<>> /\ pc' = "sleep_gaierror"
    /\ event' = "gaierror" /\ raised' = "gaierror" /\ NoDispatch
    /\ UNCHANGED <<WISER_ENTITIES, retryVars, otherVars>>

\* main.py:23, 35-36: the host refuses the connection
ConnectRefused ==
    /\ pc = "connect" /\ connects < MaxConnects
    /\ connects' = connects + 1 /\ session' = 0 /\ alive' = FALSE
    /\ waited' = <<>> /\ pc' = "sleep_refused"
    /\ event' = "refused" /\ raised' = "ConnectionRefusedError" /\ NoDispatch
    /\ UNCHANGED <<WISER_ENTITIES, retryVars, otherVars>>

\* main.py:23, 39-41: any other failure of the handshake
ConnectException ==
    /\ pc = "connect" /\ connects < MaxConnects
    /\ connects' = connects + 1 /\ session' = 0 /\ alive' = FALSE
    /\ waited' = <<>> /\ pc' = "connect"
    /\ event' = "connect_error" /\ raised' = "Exception" /\ NoDispatch
    /\ UNCHANGED <<WISER_ENTITIES, retryVars, otherVars>>

\* main.py:33-34
SleepGaierror ==
    /\ pc = "sleep_gaierror"
    /\ waited' = Append(waited, RetryDelay) /\ pc' = "connect"
    /\ event' = "slept" /\ NoDispatch
    /\ UNCHANGED <<WISER_ENTITIES, connects, session, alive, raised, retryVars, otherVars>>

\* the refused-connection handler continuing without its sleep
SleepRefused_NoWait ==
    /\ pc = "sleep_refused"
    /\ pc' = "connect"
    /\ event' = "slept" /\ NoDispatch
    /\ UNCHANGED <<WISER_ENTITIES, connects, session, alive, waited, raised, retryVars, otherVars>>

\* main.py:37-38
SleepRefused ==
    /\ pc = "sleep_refused"
    /\ waited' = Append(waited, RetryDelay) /\ pc' = "connect"
    /\ event' = "slept" /\ NoDispatch
    /\ UNCHANGED <<WISER_ENTITIES, connects, session, alive, raised, retryVars, otherVars>>

\* the exception caught inside the receive loop, the connection kept
Escape_CaughtInLoop(exc) ==
    /\ UNCHANGED <<session, alive>> /\ pc' = "recv" /\ raised' = exc

\* main.py:27-29, 39-41: an exception leaves `async with`, which closes the
\* connection, is logged, and the outer loop continues
Escape(exc) ==
    /\ session' = 0 /\ alive' = FALSE /\ pc' = "connect" /\ raised' = exc

\* main.py:46, 56-72: a frame holding a JSON object arrives and is routed
RecvMessage(m) ==
    /\ pc = "recv" /\ alive
    /\ received' = m
    /\ LET r == route(WISER_ENTITIES, m) IN
        /\ WISER_ENTITIES' = r.entities
        /\ invoked' = r.invoked /\ notified' = r.notified
        /\ IF r.raised = "none"
           THEN /\ pc' = "recv" /\ raised' = "none"
                /\ UNCHANGED <<session, alive>>
           ELSE Escape(r.raised)
    /\ event' = "message"
    /\ UNCHANGED <<connects, waited, retryVars, otherVars>>

\* main.py:46, 57: a frame that json.loads rejects
RecvUndecodable ==
    /\ pc = "recv" /\ alive
    /\ Escape("JSONDecodeError")
    /\ event' = "undecodable" /\ NoDispatch
    /\ UNCHANGED <<WISER_ENTITIES, connects, waited, retryVars, otherVars>>

\* main.py:46-47: recv raises ConnectionClosed, on a connection the peer
\* closes now or has closed before
RecvClosed ==
    /\ pc = "recv"
    /\ alive' = FALSE /\ pc' = "ping"
    /\ event' = "closed" /\ raised' = "none" /\ NoDispatch
    /\ UNCHANGED <<WISER_ENTITIES, connects, session, waited, retryVars, otherVars>>

\* main.py:46-47: recv raises TimeoutError
RecvTimeout ==
    /\ pc = "recv" /\ alive
    /\ pc' = "ping"
    /\ event' = "timeout" /\ raised' = "none" /\ NoDispatch
    /\ UNCHANGED <<WISER_ENTITIES, connects, session, alive, waited, retryVars, otherVars>>

\* main.py:49-51, 56: the pong arrives and is logged; the handler goes on to
\* line 56, where `result` was never bound: UnboundLocalError
PingOk ==
    /\ pc = "ping" /\ alive
    /\ Escape("UnboundLocalError")
    /\ event' = "pong" /\ NoDispatch
    /\ UNCHANGED <<WISER_ENTITIES, connects, waited, retryVars, otherVars>>

\* main.py:49-53: the ping or the wait for its pong raises
PingError ==
    /\ pc = "ping"
    /\ alive' = FALSE /\ pc' = "sleep_ping"
    /\ event' = "ping_error" /\ raised' = "none" /\ NoDispatch
    /\ UNCHANGED <<WISER_ENTITIES, connects, session, waited, retryVars, otherVars>>

\* main.py:54-55, 28-29: the handler sleeps and returns; the inner loop calls
\* it again on the same connection
SleepPingError ==
    /\ pc = "sleep_ping" /\ Len(waited) < MaxWaits
    /\ waited' = Append(waited, RetryDelay) /\ pc' = "recv"
    /\ event' = "slept" /\ NoDispatch
    /\ UNCHANGED <<WISER_ENTITIES, connects, session, alive, raised, retryVars, otherVars>>

----------------------------------------------------------------------------
(* API client: one request and the retrying read, feller_client.py:117-195 *)

HttpStatuses == {200, 404}
Payloads == {"payload_a", "payload_b"}

\* what the network gives back for one request: an HTTP response with a JSON
\* body, an aiohttp.ClientError, or a timeout of the whole request
Bodies ==
    {Restrict(b, K) : b \in [status : {"success", "error"}, data : Payloads],
                      K \in SUBSET {"status", "data"}}

Responses ==
    {[transport |-> "response", status |-> h, json |-> b] :
        h \in HttpStatuses, b \in Bodies}
    \cup {[transport |-> "ClientError"], [transport |-> "TimeoutError"]}

Endpoints == {"loads/1", "hvacgroups/1"}

FellerApiResult(status_code, data) ==
    [kind |-> "result", status_code |-> status_code, data |-> data]
Exception(type) == [kind |-> "exception", type |-> type]

\* feller_client.py:135-195
send_request_async(resp) ==
    IF resp.transport = "ClientError" THEN Exception("FellerApiException")
    ELSE IF resp.transport = "TimeoutError" THEN Exception("TimeoutError")
    ELSE IF resp.status >= 400 THEN Exception("FellerApiException")
    ELSE IF "status" \notin DOMAIN resp.json THEN Exception("KeyError")
    ELSE IF resp.json.status = "success"
         THEN IF "data" \notin DOMAIN resp.json THEN Exception("KeyError")
              ELSE FellerApiResult(resp.status, resp.json.data)
    ELSE Exception("FellerApiException")

\* feller_client.py:130-133: the loop is over, with or without a turn
Exhausted ==
    /\ rpc' = "raised" /\ outcome' = Exception("FellerApiException")

\* feller_client.py:61-67, 117-125: get_load_async / get_hvac_group_async
\* enter the loop of the retrying read
Call(ep, n) ==
    /\ rpc = "idle"
    /\ endpoint' = ep /\ retry_count' = n
    /\ i' = 0
    /\ IF 0 < n THEN rpc' = "request" /\ UNCHANGED outcome ELSE Exhausted
    /\ UNCHANGED <<WISER_ENTITIES, supervisorVars, otherVars, requests, failures, slept,
                   delay_before, response>>

\* feller_client.py:126-128: one request of the loop
Request(resp) ==
    /\ rpc = "request"
    /\ requests' = requests + 1 /\ response' = resp
    /\ LET r == send_request_async(resp) IN
         IF r.kind = "result"
         THEN rpc' = "returned" /\ outcome' = r /\ UNCHANGED failures
         ELSE IF r.type = "FellerApiException"
              THEN rpc' = "sleep" /\ failures' = failures + 1 /\ UNCHANGED outcome
         ELSE rpc' = "raised" /\ outcome' = r /\ UNCHANGED failures
    /\ UNCHANGED <<WISER_ENTITIES, supervisorVars, otherVars, endpoint, retry_count, i, slept,
                   delay_before>>

\* the loop taking one turn too many
Backoff_OneMoreTurn ==
    /\ rpc = "sleep"
    /\ slept' = slept + (i + 1) /\ delay_before' = i + 1
    /\ i' = i + 1
    /\ IF i + 1 <= retry_count THEN rpc' = "request" /\ UNCHANGED outcome
       ELSE Exhausted
    /\ UNCHANGED <<WISER_ENTITIES, supervisorVars, otherVars, endpoint, retry_count, requests,
                   failures, response>>

\* the sleep taking the loop variable as it is: sleep(i)
Backoff_SleepsLoopVariable ==
    /\ rpc = "sleep"
    /\ slept' = slept + i /\ delay_before' = i
    /\ i' = i + 1
    /\ IF i + 1 < retry_count THEN rpc' = "request" /\ UNCHANGED outcome
       ELSE Exhausted
    /\ UNCHANGED <<WISER_ENTITIES, supervisorVars, otherVars, endpoint, retry_count, requests,
                   failures, response>>

\* feller_client.py:129, 125: the sleep after a failed request, then the next
\* turn of the loop or its end
Backoff ==
    /\ rpc = "sleep"
    /\ slept' = slept + (i + 1) /\ delay_before' = i + 1
    /\ i' = i + 1
    /\ IF i + 1 < retry_count THEN rpc' = "request" /\ UNCHANGED outcome
       ELSE Exhausted
    /\ UNCHANGED <<WISER_ENTITIES, supervisorVars, otherVars, endpoint, retry_count, requests,
                   failures, response>>

----------------------------------------------------------------------------
(* API client: the typed operations, feller_client.py:45-115 *)

Reads ==
    {"get_all_loads_async", "get_all_hvac_groups_async", "get_hvac_group_async",
     "get_load_async"}

Commands ==
    {"set_hvac_group_temperature_async", "set_hvac_group_state_async",
     "send_load_ctrl_event_async", "set_light_brightness_async",
     "set_cover_level_async"}

\* every operation sent through the retrying read
Retrying_All == Reads \cup Commands

\* feller_client.py:57, 65: the operations that go through
\* _send_request_with_retry_async
Retrying == {"get_hvac_group_async", "get_load_async"}

\* the endpoint each operation builds, for the device with identifier 1
EndpointOf(op) ==
    CASE op = "get_all_loads_async" -> "loads"
      [] op = "get_all_hvac_groups_async" -> "hvacgroups"
      [] op = "get_hvac_group_async" -> "hvacgroups/1"
      [] op = "get_load_async" -> "loads/1"
      [] op = "set_hvac_group_temperature_async" -> "hvacgroups/1/target_state"
      [] op = "set_hvac_group_state_async" -> "hvacgroups/1/target_state"
      [] op = "send_load_ctrl_event_async" -> "loads/1/ctrl"
      [] op = "set_light_brightness_async" -> "loads/1/target_state"
      [] op = "set_cover_level_async" -> "loads/1/target_state"

\* the method argument: the default of _send_request_async for the reads
MethodOf(op) == IF op \in Commands THEN "PUT" ELSE "GET"

\* feller_client.py:45-115: a caller invokes one operation of the client; a
\* retrying one enters the loop with the retry count it was given, any other
\* awaits one _send_request_async
Invoke(op, n) ==
    /\ rpc = "idle"
    /\ operation' = op /\ method' = MethodOf(op) /\ endpoint' = EndpointOf(op)
    /\ IF op \in Retrying
       THEN /\ retry_count' = n /\ i' = 0
            /\ IF 0 < n THEN rpc' = "request" /\ UNCHANGED outcome ELSE Exhausted
       ELSE /\ rpc' = "send"
            /\ UNCHANGED <<retry_count, i, outcome>>
    /\ UNCHANGED <<WISER_ENTITIES, supervisorVars, entityVars, setupVars, requests,
                   failures, slept, delay_before, response>>

\* feller_client.py:47, 51, 73, 83, 93, 103, 111: the one request of an
\* operation that does not retry; what it gives or raises is the operation's
Send(resp) ==
    /\ rpc = "send"
    /\ requests' = requests + 1 /\ response' = resp
    /\ LET r == send_request_async(resp) IN
         /\ outcome' = r
         /\ rpc' = IF r.kind = "result" THEN "returned" ELSE "raised"
         /\ failures' = IF r.kind = "exception" /\ r.type = "FellerApiException"
                        THEN failures + 1 ELSE failures
    /\ UNCHANGED <<WISER_ENTITIES, supervisorVars, otherVars, endpoint, retry_count, i,
                   slept, delay_before>>

----------------------------------------------------------------------------
(* Entity coroutines: the commands and the full refresh of cover.py:99-154, *)
(* light.py:87-145 and climate.py:115-154. Each runs up to an await of the  *)
(* API client, and on from the answer to the next await or to its end       *)

\* ATTR_POSITION values the host passes to set_cover_position (0..100)
Positions == {0, 25, 100}
\* ATTR_BRIGHTNESS values the host passes to turn_on (0..255)
Brightnesses == {128, 255}
\* temperatures the host passes to set_temperature
Temperatures == {22}
MinTemperatures == {5}
MaxTemperatures == {30}
\* levels and brightness values the vendor echoes as target state
EchoBris == {0, 5020, 10000}

\* what an awaited operation of the client raises when it fails
Failures == {Exception("FellerApiException"), Exception("TimeoutError")}

\* the coroutine suspended in `await self._client.<call>(...)`
Suspend(self, call, sent) ==
    [entity |-> self, raised |-> "none", notified |-> FALSE, awaits |-> call,
     sent |-> sent]

\* the methods the host may call on an entity of each kind, with their kwargs
Methods(kind) ==
    CASE kind = "cover" ->
            {[op |-> o, arg |-> None] :
                o \in {"async_open_cover", "async_close_cover", "async_stop_cover",
                       "async_update"}}
            \cup {[op |-> "async_set_cover_position", arg |-> q] : q \in Positions}
      [] kind = "light" ->
            {[op |-> o, arg |-> None] :
                o \in {"async_turn_on", "async_turn_off", "async_update"}}
            \cup {[op |-> "async_turn_on", arg |-> b] : b \in Brightnesses}
      [] kind = "climate" ->
            {[op |-> o, arg |-> None] :
                o \in {"async_turn_on", "async_turn_off", "async_update"}}
            \cup {[op |-> "async_set_temperature", arg |-> t] : t \in Temperatures}

\* light.py:104-107: round(brightness * 39.22), at most 10000
convertedBrightness(brightness) ==
    LET rounded == (3922 * brightness + 50) \div 100
    IN  IF rounded > 10000 THEN 10000 ELSE rounded

\* cover.py:101-102, 108-109, 114-117, 122-124, 127: a cover method up to its await
FellerCover_begin(self, c) ==
    CASE c.op = "async_open_cover" ->
            Suspend([self EXCEPT !.position = 100 * 100], "set_cover_level_async",
                    [level |-> 0])
      [] c.op = "async_close_cover" ->
            Suspend([self EXCEPT !.position = 100 * 100], "set_cover_level_async",
                    [level |-> 10000])
      [] c.op = "async_set_cover_position" ->
            Suspend([self EXCEPT !.position = 100 * c.arg], "set_cover_level_async",
                    [level |-> (100 - c.arg) * 100])
      [] c.op = "async_stop_cover" ->
            Suspend(self, "send_load_ctrl_event_async",
                    [button |-> "stop", event |-> "click"])
      [] c.op = "async_update" -> Suspend(self, "get_load_async", EmptyDict)

\* cover.py:103-104, 110-111, 118-119
FellerCover_set_level_result(self, result) ==
    IF result.kind = "exception" THEN Raise(self, result.type)
    ELSE LET s1 == [self EXCEPT !.state = "True"] IN
         IF "target_state" \notin DOMAIN result.data THEN Raise(s1, "KeyError")
         ELSE IF "level" \notin DOMAIN result.data.target_state
              THEN Raise(s1, "KeyError")
         ELSE Return([s1 EXCEPT !.position = 10000 - result.data.target_state.level])

\* cover.py:131-154: the assignments in order, a read of a missing key raising
\* KeyError after the assignments before it
FellerCover_async_update(self, result) ==
    IF result.kind = "exception" THEN Raise(self, result.type)
    ELSE IF "state" \notin DOMAIN result.data THEN Raise(self, "KeyError")
    ELSE LET st == result.data.state IN
         IF "level" \notin DOMAIN st THEN Raise(self, "KeyError")
         ELSE LET s1 == [self EXCEPT !.position = 10000 - st.level] IN
              IF "moving" \notin DOMAIN st THEN Raise(s1, "KeyError")
              ELSE Return(CoverThresholds(CoverMoving(s1, st.moving)))

FellerCover_resume(self, c, result) ==
    CASE c.op \in {"async_open_cover", "async_close_cover", "async_set_cover_position"} ->
            FellerCover_set_level_result(self, result)
      [] c.op = "async_stop_cover" ->
            IF result.kind = "exception" THEN Raise(self, result.type) ELSE Return(self)
      [] c.op = "async_update" -> FellerCover_async_update(self, result)

\* light.py:94-97, 103-111, 118-120, 128: a light method up to its first await
FellerLight_begin(self, c) ==
    CASE c.op = "async_turn_on" /\ c.arg = None ->
            Suspend(self, "send_load_ctrl_event_async",
                    [button |-> "on", event |-> "click"])
      [] c.op = "async_turn_on" /\ c.arg # None ->
            Suspend([self EXCEPT !.brightness = 3922 * c.arg],
                    "set_light_brightness_async", [bri |-> convertedBrightness(c.arg)])
      [] c.op = "async_turn_off" ->
            Suspend(self, "send_load_ctrl_event_async",
                    [button |-> "off", event |-> "click"])
      [] c.op = "async_update" -> Suspend(self, "get_load_async", EmptyDict)

\* light.py:100, 113, 123: self._brightness = result.data[key]["bri"] / 39.22
FellerLight_brightness_from(self, result, key) ==
    IF result.kind = "exception" THEN Raise(self, result.type)
    ELSE IF key \notin DOMAIN result.data THEN Raise(self, "KeyError")
    ELSE IF "bri" \notin DOMAIN result.data[key] THEN Raise(self, "KeyError")
    ELSE IF result.data[key].bri = None THEN Raise(self, "TypeError")
    ELSE Return([self EXCEPT !.brightness = 100 * result.data[key].bri])

\* light.py:132-145
FellerLight_async_update(self, result) ==
    IF result.kind = "exception" THEN Raise(self, result.type)
    ELSE IF "state" \notin DOMAIN result.data THEN Return(self)
    ELSE LET st == result.data.state IN
         IF "bri" \notin DOMAIN st THEN Raise(self, "KeyError")
         ELSE IF st.bri = None
              THEN Return([self EXCEPT !.brightness = 0, !.is_on = "False"])
         ELSE Return([self EXCEPT !.is_on = IF st.bri > 0 THEN "True" ELSE "False",
                                  !.brightness = 100 * st.bri])

\* light.py:98-101, 112-113, 121-123: a light method on from the answer to the
\* call it awaited
FellerLight_resume(self, c, awaited, result) ==
    CASE c.op = "async_turn_on" /\ awaited = "send_load_ctrl_event_async" ->
            IF result.kind = "exception" THEN Raise(self, result.type)
            ELSE Suspend([self EXCEPT !.is_on = "True"], "get_load_async", EmptyDict)
      [] c.op = "async_turn_off" /\ awaited = "send_load_ctrl_event_async" ->
            IF result.kind = "exception" THEN Raise(self, result.type)
            ELSE Suspend([self EXCEPT !.is_on = "False"], "get_load_async", EmptyDict)
      [] c.op \in {"async_turn_on", "async_turn_off"} /\ awaited = "get_load_async" ->
            FellerLight_brightness_from(self, result, "state")
      [] c.op = "async_turn_on" /\ awaited = "set_light_brightness_async" ->
            IF result.kind = "exception" THEN Raise(self, result.type)
            ELSE FellerLight_brightness_from([self EXCEPT !.is_on = "True"], result,
                                             "target_state")
      [] c.op = "async_update" -> FellerLight_async_update(self, result)

\* climate.py:117-120, 138, 144, 150: a climate method up to its await
FellerHvacGroup_begin(self, c) ==
    CASE c.op = "async_set_temperature" ->
            Suspend(self, "set_hvac_group_temperature_async",
                    [target_temperature |-> c.arg])
      [] c.op = "async_turn_on" ->
            Suspend(self, "set_hvac_group_state_async", [on |-> TRUE])
      [] c.op = "async_turn_off" ->
            Suspend(self, "set_hvac_group_state_async", [on |-> FALSE])
      [] c.op = "async_update" -> Suspend(self, "get_hvac_group_async", EmptyDict)

\* climate.py:151-154
FellerHvacGroup_async_update(self, result) ==
    IF result.kind = "exception" THEN Raise(self, result.type)
    ELSE IF "state" \notin DOMAIN result.data THEN Raise(self, "KeyError")
    ELSE LET r == FellerHvacGroup_update_from_state(self, result.data.state) IN
         IF r.raised # "none" THEN r
         ELSE IF "min_temperature" \notin DOMAIN result.data
              THEN Raise(r.entity, "KeyError")
         ELSE LET s1 == [r.entity EXCEPT !.min_temp = result.data.min_temperature] IN
              IF "max_temperature" \notin DOMAIN result.data THEN Raise(s1, "KeyError")
              ELSE Return([s1 EXCEPT !.max_temp = result.data.max_temperature])

\* climate.py:121, 139-140, 145-146, 151-154
FellerHvacGroup_resume(self, c, result) ==
    CASE c.op = "async_set_temperature" ->
            IF result.kind = "exception" THEN Raise(self, result.type) ELSE Notify(self)
      [] c.op = "async_turn_on" ->
            IF result.kind = "exception" THEN Raise(self, result.type)
            ELSE Notify([self EXCEPT !.hvac_mode = "heat"])
      [] c.op = "async_turn_off" ->
            IF result.kind = "exception" THEN Raise(self, result.type)
            ELSE Notify([self EXCEPT !.hvac_mode = "off"])
      [] c.op = "async_update" -> FellerHvacGroup_async_update(self, result)

\* the method the object's class binds
begin(self, c) ==
    CASE self.kind = "cover" -> FellerCover_begin(self, c)
      [] self.kind = "light" -> FellerLight_begin(self, c)
      [] self.kind = "climate" -> FellerHvacGroup_begin(self, c)

resume(self, c, awaited, result) ==
    CASE self.kind = "cover" -> FellerCover_resume(self, c, result)
      [] self.kind = "light" -> FellerLight_resume(self, c, awaited, result)
      [] self.kind = "climate" -> FellerHvacGroup_resume(self, c, result)

\* what the awaited operation of the client may give back: the vendor's answer
\* to that request, complete or lacking the keys the caller reads, or a failure
Replies(self, awaited, sent) ==
    LET Result(data) == FellerApiResult(200, data)
        id == self.wiser_id
    IN  Failures \cup
        CASE awaited = "set_cover_level_async" ->
                {Result([id |-> id, target_state |-> [level |-> l]]) : l \in Levels}
                \cup {Result([id |-> id])}
          [] awaited = "send_load_ctrl_event_async" -> {Result([id |-> id])}
          [] awaited = "set_light_brightness_async" ->
                {Result([id |-> id, target_state |-> [bri |-> b]]) : b \in EchoBris}
                \cup {Result([id |-> id])}
          [] awaited = "get_load_async" /\ self.kind = "cover" ->
                {Result([id |-> id, state |-> st]) : st \in CoverStates}
                \cup {Result([id |-> id])}
          [] awaited = "get_load_async" /\ self.kind # "cover" ->
                {Result([id |-> id, state |-> st]) : st \in [bri : Bris] \cup {EmptyDict}}
                \cup {Result([id |-> id])}
          [] awaited = "get_hvac_group_async" ->
                {Result([id |-> id, state |-> st, min_temperature |-> lo,
                         max_temperature |-> hi]) :
                    st \in HvacStates, lo \in MinTemperatures, hi \in MaxTemperatures}
                \cup {Result([id |-> id,
                              state |-> [ambient_temperature |-> 19,
                                         target_temperature |-> 21, on |-> TRUE,
                                         heating_cooling_level |-> 40]]),
                      Result([id |-> id])}
          [] awaited \in {"set_hvac_group_temperature_async",
                          "set_hvac_group_state_async"} ->
                {Result([id |-> id, target_state |-> sent])}

\* the coroutine after a step that gave r
Coroutine(k, c, r, wrote) ==
    IF "awaits" \in DOMAIN r
    THEN [op |-> c.op, arg |-> c.arg, self |-> k, at |-> "await", awaits |-> r.awaits,
          sent |-> r.sent, raised |-> "none", wrote |-> wrote]
    ELSE [op |-> c.op, arg |-> c.arg, self |-> k,
          at |-> IF r.raised = "none" THEN "done" ELSE "raised", awaits |-> "none",
          sent |-> EmptyDict, raised |-> r.raised, wrote |-> wrote]

\* a step of the coroutine is no step of the supervisor task
CoroutineStep(k, r) ==
    /\ WISER_ENTITIES' = [WISER_ENTITIES EXCEPT ![k] = r.entity]
    /\ event' = "coroutine" /\ invoked' = 0 /\ received' = EmptyDict
    /\ notified' = IF r.notified THEN {k} ELSE {}
    /\ UNCHANGED <<pc, connects, session, alive, waited, raised, retryVars, clientVars,
                   setupVars>>

\* the host calls a method of a registered entity, which runs to its first await
Start(k, c) ==
    /\ co = [op |-> "none"]
    /\ LET r == begin(WISER_ENTITIES[k], c) IN
         /\ co' = Coroutine(k, c, r, r.entity # WISER_ENTITIES[k])
         /\ CoroutineStep(k, r)
    /\ UNCHANGED reply

\* the awaited operation returns or raises, and the method runs on to its next
\* await or to its end
Resume ==
    /\ co.op # "none" /\ co.at = "await"
    /\ LET k == co.self IN
         \E result \in Replies(WISER_ENTITIES[k], co.awaits, co.sent) :
            LET r == resume(WISER_ENTITIES[k], co, co.awaits, result) IN
              /\ reply' = result
              /\ co' = Coroutine(k, co, r, co.wrote \/ r.entity # WISER_ENTITIES[k])
              /\ CoroutineStep(k, r)

\* the push events of the interleavings: every complete cover state and the
\* light and HVAC states that differ in what they write, for identifier 1,
\* with an event lacking a field and one lacking `state`
PushEvents ==
    {[load |-> [id |-> 1, state |-> st]] :
        st \in [level : Levels, moving : Movings]
               \cup {[level |-> 2500], [bri |-> None], [bri |-> 0], [bri |-> 5000],
                     [bri |-> 0, flags |-> [fading |-> 1]]}}
    \cup {[hvacgroup |-> [id |-> 1, state |-> st]] :
            st \in {[ambient_temperature |-> 19, target_temperature |-> 21,
                     on |-> TRUE, heating_cooling_level |-> 40],
                    [ambient_temperature |-> 19, target_temperature |-> 21,
                     on |-> FALSE, heating_cooling_level |-> 0],
                    [ambient_temperature |-> 19, on |-> TRUE,
                     heating_cooling_level |-> 40]}}
    \cup {[load |-> [id |-> 1]]}

----------------------------------------------------------------------------
(* Integration setup, __init__.py:23-31, and the platform setups it awaits, *)
(* cover.py:19-38, light.py:19-35, climate.py:23-37                          *)

\* the entities of one kind in the registry
OfKind(entities, kind) ==
    LET IsKind(e) == e.kind = kind IN SelectSeq(entities, IsKind)

\* the setup in progress, or else the last one
Current == IF setup = "forwarding" THEN tasks + 1 ELSE tasks

\* the identifiers of the entities of a sequence
Identifiers(entities) == {entities[k].wiser_id : k \in 1..Len(entities)}

\* the registry entries of one kind that setup n registered
Handles(kind, n) ==
    {k \in 1..Len(WISER_ENTITIES) :
        WISER_ENTITIES[k].kind = kind /\ generation[k] = n}

\* the vendor lists the same devices to every platform of a setup: what the
\* platforms that are done have registered is what they make of inventory v
Listed(v) ==
    \A q \in PLATFORMS :
        platforms[q] = "done" =>
            {WISER_ENTITIES[k].wiser_id : k \in Handles(q, Current)}
                = Identifiers(PlatformEntities(q, v.loads, v.groups))

SetupStep ==
    UNCHANGED <<supervisorVars, retryVars, clientVars, entityVars>>

\* __init__.py:25-27: the host calls async_setup_entry, for the first time or
\* after an unload, which awaits async_forward_entry_setups
Forward ==
    /\ setup \in {"idle", "unloaded"} /\ tasks < MaxSetups
    /\ setup' = "forwarding"
    /\ platforms' = [p \in PLATFORMS |-> "idle"]
    /\ UNCHANGED <<WISER_ENTITIES, tasks, generation>> /\ SetupStep

\* cover.py:23-27, light.py:20-24, climate.py:25-29: a platform's
\* async_setup_entry runs to the await of its list request
PlatformRequests(p) ==
    /\ setup = "forwarding" /\ platforms[p] = "idle"
    /\ platforms' = [platforms EXCEPT ![p] = "requested"]
    /\ UNCHANGED <<WISER_ENTITIES, setup, tasks, generation>> /\ SetupStep

\* the platform assigns its entities to the registry instead of extending it
PlatformReturns_Overwrites(p, v) ==
    /\ platforms[p] = "requested" /\ Listed(v)
    /\ WISER_ENTITIES' = PlatformEntities(p, v.loads, v.groups)
    /\ generation' = [k \in 1..Len(WISER_ENTITIES') |-> Current]
    /\ platforms' = [platforms EXCEPT ![p] = "done"]
    /\ UNCHANGED <<setup, tasks>> /\ SetupStep

\* cover.py:29-38, light.py:26-35, climate.py:31-37: the list arrives, the
\* platform extends the registry with its entities and returns
PlatformReturns(p, v) ==
    /\ platforms[p] = "requested" /\ Listed(v)
    /\ WISER_ENTITIES' = WISER_ENTITIES \o PlatformEntities(p, v.loads, v.groups)
    /\ generation' = [k \in 1..Len(WISER_ENTITIES') |->
                         IF k <= Len(WISER_ENTITIES) THEN generation[k] ELSE Current]
    /\ platforms' = [platforms EXCEPT ![p] = "done"]
    /\ UNCHANGED <<setup, tasks>> /\ SetupStep

\* cover.py:27, light.py:24, climate.py:29: the list request raises and with it
\* the platform's setup, which registers nothing
PlatformRaises(p) ==
    /\ platforms[p] = "requested"
    /\ platforms' = [platforms EXCEPT ![p] = "failed"]
    /\ UNCHANGED <<WISER_ENTITIES, setup, tasks, generation>> /\ SetupStep

\* the supervisor task created without awaiting the platform setups
CreateTask_NotAwaited ==
    /\ setup = "forwarding"
    /\ setup' = "returned"
    /\ tasks' = tasks + 1
    /\ UNCHANGED <<WISER_ENTITIES, platforms, generation>> /\ SetupStep

\* __init__.py:27-31: the await of the platform setups is over, the supervisor
\* task is created and async_setup_entry returns
CreateTask ==
    /\ setup = "forwarding"
    /\ \A p \in PLATFORMS : platforms[p] \in {"done", "failed"}
    /\ setup' = "returned"
    /\ tasks' = tasks + 1
    /\ UNCHANGED <<WISER_ENTITIES, platforms, generation>> /\ SetupStep

\* __init__.py:34-39: the host unloads the integration; the platforms are
\* unloaded, the registry is left as it is and the supervisor task is left running
async_unload_entry ==
    /\ setup = "returned"
    /\ setup' = "unloaded"
    /\ UNCHANGED <<WISER_ENTITIES, platforms, tasks, generation>> /\ SetupStep

\* main.py:17-29: a supervisor task, once created, connects and routes
establish_websocket ==
    /\ tasks > 0
    /\ \/ ConnectOk
       \/ \E m \in PushEvents : RecvMessage(m)

----------------------------------------------------------------------------
(* Specifications *)

SupervisorIdle ==
    /\ pc = "connect" /\ connects = 0 /\ session = 0 /\ alive = FALSE
    /\ waited = <<>> /\ event = "none" /\ raised = "none"
    /\ invoked = 0 /\ notified = {} /\ received = EmptyDict

RetryIdle ==
    /\ rpc = "idle" /\ endpoint = "none" /\ retry_count = 0 /\ i = 0
    /\ requests = 0 /\ failures = 0 /\ slept = 0 /\ delay_before = 0
    /\ response = [transport |-> "none"] /\ outcome = [kind |-> "none"]

ClientIdle == operation = "none" /\ method = "none"

EntityIdle == co = [op |-> "none"] /\ reply = [kind |-> "none"]

SetupIdle ==
    /\ setup = "idle" /\ platforms = [p \in PLATFORMS |-> "idle"]
    /\ tasks = 0 /\ generation = <<>>

SetupReturned ==
    /\ setup = "returned" /\ platforms = [p \in PLATFORMS |-> "done"]
    /\ tasks = 1 /\ generation = [k \in 1..Len(WISER_ENTITIES) |-> 1]

\* the supervisor task is created when the platform setups have returned
Init ==
    /\ WISER_ENTITIES \in Registries
    /\ SupervisorIdle
    /\ RetryIdle
    /\ ClientIdle
    /\ EntityIdle
    /\ SetupReturned

Next ==
    \/ ConnectOk
    \/ ConnectGaierror
    \/ ConnectRefused
    \/ ConnectException
    \/ SleepGaierror
    \/ SleepRefused
    \/ \E m \in Messages : RecvMessage(m)
    \/ RecvUndecodable
    \/ RecvClosed
    \/ RecvTimeout
    \/ PingOk
    \/ PingError
    \/ SleepPingError

Spec == Init /\ [][Next]_vars

\* a read of one device
InitRetry ==
    /\ WISER_ENTITIES = <<>>
    /\ SupervisorIdle
    /\ RetryIdle
    /\ ClientIdle
    /\ EntityIdle
    /\ SetupIdle

NextRetry ==
    \/ \E ep \in Endpoints, n \in 0..MaxRetryCount : Call(ep, n)
    \/ \E resp \in Responses : Request(resp)
    \/ Backoff

SpecRetry == InitRetry /\ [][NextRetry]_vars

\* one operation of the API client
InitClient == InitRetry

NextClient ==
    \/ \E op \in Reads \cup Commands, n \in 0..MaxRetryCount : Invoke(op, n)
    \/ \E resp \in Responses : Send(resp)
    \/ \E resp \in Responses : Request(resp)
    \/ Backoff

SpecClient == InitClient /\ [][NextClient]_vars

\* the registries of the interleavings: the cover platform set up first, every
\* entity under an identifier of its own
EntityRegistries ==
    {registry \in Registries :
        /\ registry # <<>>
        /\ \A a, b \in 1..Len(registry) :
              a < b => /\ registry[a].wiser_id # registry[b].wiser_id
                       /\ registry[b].kind # "cover"}

\* the entities of a registry under the host's method calls and the push
\* events of the supervisor task
InitEntity ==
    /\ WISER_ENTITIES \in EntityRegistries
    /\ SupervisorIdle
    /\ RetryIdle
    /\ ClientIdle
    /\ EntityIdle
    /\ SetupReturned

NextEntity ==
    \/ ConnectOk
    \/ \E m \in PushEvents : RecvMessage(m)
    \/ \E k \in 1..Len(WISER_ENTITIES) :
          \E c \in Methods(WISER_ENTITIES[k].kind) : Start(k, c)
    \/ Resume

SpecEntity == InitEntity /\ [][NextEntity]_vars

\* one setup of the integration, from the host's call on
InitSetup ==
    /\ WISER_ENTITIES = <<>>
    /\ SupervisorIdle
    /\ RetryIdle
    /\ ClientIdle
    /\ EntityIdle
    /\ SetupIdle

NextSetup ==
    \/ Forward
    \/ \E p \in PLATFORMS : PlatformRequests(p)
    \/ \E p \in PLATFORMS, v \in Inventories : PlatformReturns(p, v)
    \/ \E p \in PLATFORMS : PlatformRaises(p)
    \/ CreateTask
    \/ establish_websocket

SpecSetup == InitSetup /\ [][NextSetup]_vars

\* the push events of the reloads: one complete state for each kind of entity
ReloadEvents ==
    {[load |-> [id |-> 1, state |-> [level |-> 2500, moving |-> "stop"]]],
     [load |-> [id |-> 1, state |-> [bri |-> 5000]]],
     [hvacgroup |-> [id |-> 1, state |->
        [ambient_temperature |-> 19, target_temperature |-> 21,
         on |-> TRUE, heating_cooling_level |-> 40]]]}

\* main.py:17-29: the supervisor tasks that unloads have left running, and the
\* one of the last setup, connect and route
SupervisorTask ==
    /\ tasks > 0
    /\ \/ ConnectOk
       \/ \E m \in ReloadEvents : RecvMessage(m)

\* setups and unloads of the integration, one after the other
InitReload == InitSetup

NextReload ==
    \/ Forward
    \/ \E p \in PLATFORMS : PlatformRequests(p)
    \/ \E p \in PLATFORMS, v \in Inventories : PlatformReturns(p, v)
    \/ \E p \in PLATFORMS : PlatformRaises(p)
    \/ CreateTask
    \/ async_unload_entry
    \/ SupervisorTask

SpecReload == InitReload /\ [][NextReload]_vars

----------------------------------------------------------------------------
(* Claims about the connection supervisor *)

\* C1 (as claimed): when a receive signals "connection closed" and the
\* follow-up ping fails, the supervisor waits 10 seconds and then leaves the
\* connection for Disconnected, where a new websocket connection is opened;
\* it does not go back to receiving on the dead session.
C1_PingFailureReconnects ==
    [][pc = "sleep_ping" =>
          /\ waited' = Append(waited, RetryDelay)
          /\ session' = 0 /\ pc' = "connect"]_vars

\* the failure steps of the supervisor: the end of a wait that follows a failed
\* connect or a failed ping, and an exception reaching the outer handler
FailureHandled ==
    \/ pc \in {"sleep_gaierror", "sleep_refused", "sleep_ping"}
    \/ event' \in {"connect_error", "undecodable"}
    \/ event' = "message" /\ raised' # "none"

\* C2 (as claimed): the supervisor never reaches a terminated state, and every
\* failure (DNS failure, refused connection, connection loss with a failed
\* ping, undecodable frame, error raised while routing) leads back to
\* Disconnected, from where a new connect attempt is made.
C2_FailuresLeadToDisconnected ==
    /\ [](pc \in {"connect", "sleep_gaierror", "sleep_refused", "recv", "ping",
                  "sleep_ping"})
    /\ [][FailureHandled => session' = 0 /\ pc' = "connect"]_vars

\* C3: after a connect that failed with a DNS failure or a refused connection
\* the supervisor is either about to wait, having waited nothing since that
\* attempt, or back at the connect call after exactly one wait of 10 seconds;
\* it holds no connection and has not left its loop.
C3_OneWaitBeforeReconnect ==
    raised \in {"gaierror", "ConnectionRefusedError"} =>
        /\ session = 0
        /\ \/ pc = (IF raised = "gaierror" THEN "sleep_gaierror" ELSE "sleep_refused")
              /\ waited = <<>>
           \/ pc = "connect" /\ waited = <<RetryDelay>>

\* C3 witness: a second connect attempt has failed on name resolution and its
\* single wait is over: the supervisor is at the connect call for a third time.
C3_Witness ==
    /\ connects = 2 /\ raised = "gaierror" /\ pc = "connect"
    /\ waited = <<RetryDelay>> /\ event = "slept"

\* C4 (as claimed): when the ping that follows a receive timeout or a closed
\* connection is answered by a pong, the handler raises nothing and the
\* supervisor stays on the same connection, opening no new one.
C4_PongKeepsSession ==
    [][(pc = "ping" /\ event' = "pong") =>
          /\ raised' = "none"
          /\ session' = session /\ pc' = "recv" /\ connects' = connects]_vars

\* C5 (as claimed): an error other than a DNS failure, a refused connection or
\* a closed connection that occurs while receiving (an undecodable frame, a
\* push-update raising) is logged and the receive loop continues on the same
\* connection.
C5_ErrorKeepsConnection ==
    [][(pc = "recv" /\ raised' # "none") => session' = session /\ pc' = "recv"]_vars

\* C5 (amended): such an error leaves the receive loop and closes the
\* connection; the supervisor goes straight back to the connect call, without
\* any wait, and does not leave its loop.
C5_ErrorClosesAndReconnects ==
    [][(pc \in {"recv", "ping"} /\ raised' # "none") =>
          /\ session # 0 /\ session' = 0 /\ alive' = FALSE
          /\ pc' = "connect"
          /\ waited' = waited /\ connects' = connects]_vars

\* C5 witness: a push-update raised KeyError on the first connection, which is
\* closed, and the supervisor is at the connect call.
C5_Witness ==
    /\ event = "message" /\ raised = "KeyError" /\ invoked # 0
    /\ connects = 1 /\ session = 0 /\ pc = "connect"

----------------------------------------------------------------------------
(* Claims about event routing and the push-update entry points *)

Registered(N) == \E k \in 1..Len(WISER_ENTITIES) : WISER_ENTITIES[k].wiser_id = N

\* the envelope carries identifier N under `key`
CarriesId(m, key, N) == key \in DOMAIN m /\ "id" \in DOMAIN m[key] /\ m[key].id = N

\* the envelope has neither key, or its key has no `id`
NoIdentifier(m) ==
    \/ "load" \notin DOMAIN m /\ "hvacgroup" \notin DOMAIN m
    \/ "load" \in DOMAIN m /\ "id" \notin DOMAIN m.load
    \/ "load" \notin DOMAIN m /\ "hvacgroup" \in DOMAIN m /\ "id" \notin DOMAIN m.hvacgroup

\* the envelope carries an identifier no registered entity has
UnknownIdentifier(m) ==
    \/ \E N \in Ids : CarriesId(m, "load", N) /\ ~Registered(N)
    \/ "load" \notin DOMAIN m /\ \E N \in Ids : CarriesId(m, "hvacgroup", N) /\ ~Registered(N)

\* the step is the handling of one decoded envelope
Routed == pc = "recv" /\ event' = "message"

\* C6: an envelope with load.id = N has the push-update of one registered
\* entity with identifier N called, and of no entity when none is registered
\* under N; every other entity keeps its state and notifies nothing. An
\* envelope without identifier, or with an identifier nobody is registered
\* under, changes no entity, raises nothing and notifies nothing.
C6_EventRouting ==
    [][Routed =>
          /\ \A N \in Ids : CarriesId(received', "load", N) =>
                /\ IF Registered(N)
                   THEN /\ invoked' \in 1..Len(WISER_ENTITIES)
                        /\ WISER_ENTITIES[invoked'].wiser_id = N
                   ELSE invoked' = 0
                /\ \A k \in 1..Len(WISER_ENTITIES) :
                      k # invoked' => WISER_ENTITIES'[k] = WISER_ENTITIES[k]
                /\ notified' \subseteq {invoked'}
          /\ (NoIdentifier(received') \/ UnknownIdentifier(received')) =>
                /\ invoked' = 0 /\ notified' = {}
                /\ WISER_ENTITIES' = WISER_ENTITIES
                /\ raised' = "none" /\ pc' = "recv"]_vars

\* C6 witness: of two registered entities the second, a light with identifier
\* 2, was updated by an envelope with load.id = 2.
C6_Witness ==
    /\ event = "message" /\ invoked = 2 /\ Len(WISER_ENTITIES) = 2
    /\ CarriesId(received, "load", 2)
    /\ WISER_ENTITIES[2].kind = "light" /\ WISER_ENTITIES[2].is_on = "True"
    /\ WISER_ENTITIES[1].wiser_id = 1

\* the key the entity kind reads its state under
KindKey(kind) == IF kind = "climate" THEN "hvacgroup" ELSE "load"

LacksKindKeyOrState(kind, m) ==
    \/ KindKey(kind) \notin DOMAIN m
    \/ "state" \notin DOMAIN m[KindKey(kind)]

\* C7: a push-update called with an envelope that lacks the kind key of its
\* entity, or `state` under that key, leaves every field of every entity
\* unchanged, raises nothing and sends no state-changed notification.
C7_NoStateIsNoop ==
    [][(Routed /\ invoked' # 0
         /\ LacksKindKeyOrState(WISER_ENTITIES[invoked'].kind, received')) =>
          /\ WISER_ENTITIES' = WISER_ENTITIES
          /\ raised' = "none" /\ notified' = {}
          /\ pc' = "recv" /\ session' = session]_vars

\* C7 witness: a cover that holds a position had its push-update called with
\* an envelope without `load` (an hvacgroup event with the cover's identifier).
C7_Witness ==
    /\ event = "message" /\ invoked # 0
    /\ WISER_ENTITIES[invoked].kind = "cover"
    /\ WISER_ENTITIES[invoked].position = 7500
    /\ "load" \notin DOMAIN received
    /\ raised = "none"

\* the fields of `state` each kind reads
ExpectedStateKeys(kind) ==
    CASE kind = "cover" -> {"level", "moving"}
      [] kind = "light" -> {"bri"}
      [] kind = "climate" -> HvacStateKeys

MissingExpectedKey(kind, m) ==
    \/ LacksKindKeyOrState(kind, m)
    \/ ~(ExpectedStateKeys(kind) \subseteq DOMAIN m[KindKey(kind)].state)

\* C8 (as claimed): a push envelope missing any expected key, a field of
\* `state` included, is discarded: nothing is raised to the supervisor, no
\* field of the entity changes and the connection stays open.
C8_MalformedIsDiscarded ==
    [][(Routed /\ invoked' # 0
         /\ MissingExpectedKey(WISER_ENTITIES[invoked'].kind, received')) =>
          /\ raised' = "none"
          /\ WISER_ENTITIES' = WISER_ENTITIES
          /\ session' = session /\ pc' = "recv"]_vars

----------------------------------------------------------------------------
(* Claims about the retrying read, checked under SpecRetry *)

\* 1 + 2 + ... + k
SumTo(k) == (k * (k + 1)) \div 2

\* the loop ran out of turns
RetriesExhausted ==
    rpc = "raised" /\ outcome.type = "FellerApiException"

\* C9: a read with retry count n never makes more than n requests; when k < n
\* requests raised the API failure and the next one succeeded it returns that
\* response's result after exactly k + 1 requests and 1 + ... + k seconds of
\* sleep; when it raises the API failure, n requests were made and all n failed.
C9_RetryPolicy ==
    /\ requests <= retry_count
    /\ rpc = "returned" =>
          /\ failures < retry_count /\ requests = failures + 1
          /\ slept = SumTo(failures)
          /\ response.status < 400 /\ response.json.status = "success"
          /\ outcome = [kind |-> "result", status_code |-> response.status,
                        data |-> response.json.data]
    /\ RetriesExhausted => requests = retry_count /\ failures = retry_count

\* C9 witness: with the default retry count four requests failed and the fifth
\* succeeded, after 1 + 2 + 3 + 4 seconds of sleep.
C9_Witness ==
    /\ rpc = "returned" /\ retry_count = 5 /\ failures = 4 /\ requests = 5
    /\ slept = 10 /\ outcome.kind = "result"

\* C10 (as claimed): the delay before attempt j is j seconds, and after the
\* attempts are exhausted the failure is surfaced to the caller.
C10_DelayBeforeAttempt ==
    /\ rpc = "request" => delay_before = i + 1
    /\ (rpc \in {"returned", "raised"} /\ failures = retry_count) => RetriesExhausted

\* C10 (amended): the first attempt is made without delay and the delay
\* before attempt j + 1 is j seconds: each failed attempt j is followed by a
\* sleep of j seconds, the last one included, after which the API failure is
\* surfaced to the caller.
C10_DelayAfterFailedAttempt ==
    /\ rpc = "request" => delay_before = i /\ requests = i /\ failures = i
    /\ rpc = "sleep" => requests = i + 1 /\ failures = i + 1 /\ delay_before = i
    /\ (rpc \in {"returned", "raised"} /\ failures = retry_count) => RetriesExhausted
    /\ RetriesExhausted => delay_before = retry_count /\ slept = SumTo(retry_count)

\* C10 witness: five attempts failed, the sleeps were 1, 2, 3, 4 and 5 seconds
\* and the failure was raised.
C10_Witness ==
    /\ RetriesExhausted /\ retry_count = 5 /\ requests = 5
    /\ delay_before = 5 /\ slept = 15

----------------------------------------------------------------------------
(* Claims about the operations of the API client, checked under SpecClient *)

\* the answer is an HTTP response below 400 whose body says "success"
Succeeds(resp) ==
    /\ resp.transport = "response" /\ resp.status < 400
    /\ "status" \in DOMAIN resp.json /\ resp.json.status = "success"

\* C11: a mutating command (set HVAC temperature, set HVAC on/off, send load
\* control event, set light brightness, set cover level) issues exactly one
\* HTTP request and never sleeps; when that request fails the command has
\* raised to its caller after that one request, without a second attempt.
C11_CommandsSendOnce ==
    operation \in Commands =>
        /\ method = "PUT"
        /\ requests <= 1 /\ slept = 0
        /\ rpc \in {"send", "returned", "raised"}
        /\ requests = 1 => rpc \in {"returned", "raised"}
        /\ rpc = "returned" => requests = 1 /\ Succeeds(response)
        /\ rpc = "raised" => requests = 1 /\ outcome.kind = "exception"
        /\ (requests = 1 /\ ~Succeeds(response)) => rpc = "raised"

\* C11 witness: set_cover_level_async got HTTP 404 for its one request and
\* raised the API failure.
C11_Witness ==
    /\ operation = "set_cover_level_async" /\ rpc = "raised" /\ requests = 1
    /\ response.transport = "response" /\ response.status = 404
    /\ outcome = Exception("FellerApiException")

\* the retry count of get_load_async and get_hvac_group_async when the caller
\* passes none
DefaultRetryCount == 5

\* C12 (as claimed): every read of the API client (list loads, list HVAC
\* groups, get one load, get one HVAC group) surfaces the API failure to its
\* caller only after as many failed requests as its retry count, the default
\* count where the operation takes none: a single failed request is followed
\* by further attempts.
C12_EveryReadRetries ==
    (operation \in Reads /\ RetriesExhausted) =>
        /\ requests = (IF operation \in {"get_load_async", "get_hvac_group_async"}
                       THEN retry_count ELSE DefaultRetryCount)
        /\ failures = requests

\* C13 (as claimed): an operation returns a Result carrying the decoded `data`
\* exactly when the answer has an HTTP status below 400 and the vendor status
\* "success"; with any other answer (HTTP status >= 400, a transport failure,
\* a request timeout, another vendor status) the one request raises the API
\* failure, which is the only error a caller ever receives and which the
\* retrying read answers with its sleep.
C13_ResultOrApiFailure ==
    /\ rpc = "returned" =>
          /\ Succeeds(response)
          /\ outcome = FellerApiResult(response.status, response.json.data)
    /\ rpc = "raised" => outcome = Exception("FellerApiException")
    /\ (requests > 0 /\ Succeeds(response)) => rpc = "returned"
    /\ (requests > 0 /\ ~Succeeds(response) /\ operation \in Retrying) =>
          \/ rpc = "sleep"
          \/ rpc = "request" /\ response.transport # "TimeoutError"
          \/ RetriesExhausted

----------------------------------------------------------------------------
(* Claims about the state of the entities; C15 is checked under Spec, the *)
(* others under SpecEntity                                                *)

\* the step in which the awaited call of a coroutine is answered
Answered == co.op # "none" /\ co.at = "await"

\* the step ends the full refresh of entity k / a command on entity k
RefreshEnds(k) == Answered /\ co.op = "async_update" /\ co.self = k /\ co'.at # "await"
CommandEnds(k) == Answered /\ co.op # "async_update" /\ co.self = k /\ co'.at = "done"

\* the step is a push-update called on entity k
Pushed(k) == Routed /\ invoked' = k

\* the state carried by the envelope of the step, for an entity of this kind
PushedState(kind) == received'[KindKey(kind)].state

\* a cover state with a level in 0..10000 and a moving direction
ValidCoverState(st) ==
    /\ DOMAIN st = {"level", "moving"}
    /\ st.level \in 0..10000 /\ st.moving \in {"up", "down", "stop"}

\* the cover fields the claim gives for level L and a moving direction, the
\* position in hundredths: position = 100 - L/100
CoverMapped(e, st) ==
    /\ 100 * 100 - e.position = st.level
    /\ e.is_opening = (st.moving = "up")
    /\ e.is_closing = (st.moving = "down")
    /\ e.is_opened = (e.position >= 100 * 100)
    /\ e.is_closed = (e.position <= 0)
    /\ e.is_partially_opened = (~e.is_opened /\ ~e.is_closed)
    /\ st.level = 0 => e.position = 100 * 100 /\ e.is_opened
    /\ st.level = 10000 => e.position = 0 /\ e.is_closed
    /\ (st.level = 2500 /\ st.moving = "down") =>
          /\ e.position = 75 * 100 /\ e.is_closing /\ ~e.is_opening
          /\ e.is_partially_opened

\* C14: a push event, and likewise the answer of a full refresh, with vendor
\* level L and moving direction up, down or stop leaves the cover with
\* position = 100 - L/100, is_opening exactly for up, is_closing exactly for
\* down and exactly one of fully open (position >= 100), fully closed
\* (position <= 0) and partially open; level 0 gives 100, level 10000 gives 0,
\* level 2500 with down gives 75, closing, not opening, partially open.
C14_CoverStateMapping ==
    [][\A k \in 1..Len(WISER_ENTITIES) : WISER_ENTITIES[k].kind = "cover" =>
          /\ (/\ Pushed(k) /\ "load" \in DOMAIN received'
              /\ "state" \in DOMAIN received'.load
              /\ ValidCoverState(received'.load.state)) =>
                /\ CoverMapped(WISER_ENTITIES'[k], received'.load.state)
                /\ raised' = "none"
          /\ (/\ RefreshEnds(k) /\ reply'.kind = "result"
              /\ "state" \in DOMAIN reply'.data
              /\ ValidCoverState(reply'.data.state)) =>
                /\ CoverMapped(WISER_ENTITIES'[k], reply'.data.state)
                /\ co'.at = "done"]_vars

\* C14 witness: a cover whose full refresh gave it a state was then pushed
\* level 2500 moving down: position 75, closing, partially open.
C14_Witness ==
    /\ co.op = "async_update" /\ co.at = "done" /\ reply.kind = "result"
    /\ event = "message" /\ invoked # 0
    /\ received = [load |-> [id |-> 1, state |-> [level |-> 2500, moving |-> "down"]]]
    /\ WISER_ENTITIES[invoked].kind = "cover" /\ co.self = invoked
    /\ WISER_ENTITIES[invoked].position = 7500
    /\ WISER_ENTITIES[invoked].is_closing /\ WISER_ENTITIES[invoked].is_partially_opened

\* the `fading` flag of a light state is set
FadingFlagSet(st) ==
    "flags" \in DOMAIN st /\ "fading" \in DOMAIN st.flags /\ st.flags.fading = 1

\* a load event a light takes: a state with a brightness or with the flag set
ValidLightEvent(m) ==
    /\ "load" \in DOMAIN m /\ "state" \in DOMAIN m.load
    /\ "bri" \in DOMAIN m.load.state \/ FadingFlagSet(m.load.state)

\* C15: a valid load event pushed to a light with the `fading` flag set leaves
\* brightness and is_on unchanged and sends no notification; without the flag,
\* a vendor brightness of 0 or null sets is_on false and brightness 0, and a
\* positive one sets is_on true and brightness to the vendor value divided by
\* 39.22 (100 * bri in units of 1/3922).
C15_LightPushUpdate ==
    [][\A k \in 1..Len(WISER_ENTITIES) :
          (Pushed(k) /\ WISER_ENTITIES[k].kind = "light" /\ ValidLightEvent(received')) =>
             LET st == received'.load.state
                 after == WISER_ENTITIES'[k]
             IN  /\ raised' = "none"
                 /\ IF FadingFlagSet(st)
                    THEN after = WISER_ENTITIES[k] /\ notified' = {}
                    ELSE IF st.bri = None \/ st.bri = 0
                    THEN after.is_on = "False" /\ after.brightness = 0
                    ELSE after.is_on = "True" /\ after.brightness = 100 * st.bri]_vars

\* C15 witness: a light at vendor brightness 5000 was pushed an event with
\* brightness 0 and the fading flag set, and is still on at that brightness.
C15_Witness ==
    /\ event = "message" /\ invoked # 0
    /\ WISER_ENTITIES[invoked].kind = "light"
    /\ received = [load |-> [id |-> WISER_ENTITIES[invoked].wiser_id,
                             state |-> [bri |-> 0, flags |-> [fading |-> 1]]]]
    /\ WISER_ENTITIES[invoked].is_on = "True"
    /\ WISER_ENTITIES[invoked].brightness = 100 * 5000

\* C16 (as claimed): when a command ends successfully the entity's state is
\* the target state echoed in the command's response: the position for a
\* level, the brightness for a `bri`, the target temperature for a
\* target_temperature, the mode for an `on`.
C16_CommandEchoIsLocalState ==
    [][\A k \in 1..Len(WISER_ENTITIES) :
          (CommandEnds(k) /\ reply'.kind = "result"
              /\ "target_state" \in DOMAIN reply'.data) =>
             LET e == WISER_ENTITIES'[k]
                 target == reply'.data.target_state
             IN  /\ "level" \in DOMAIN target => 100 * 100 - e.position = target.level
                 /\ "bri" \in DOMAIN target => e.brightness = 100 * target.bri
                 /\ "target_temperature" \in DOMAIN target =>
                       e.target_temperature = target.target_temperature
                 /\ "on" \in DOMAIN target =>
                       e.hvac_mode = (IF target.on THEN "heat" ELSE "off")]_vars

\* C17 (as claimed): a push-update that changed its entity and returned, and a
\* command that wrote a field of its entity and ended successfully, have sent
\* the state-changed notification for that entity by the step that ends them.
C17_MutationNotifies ==
    [][\A k \in 1..Len(WISER_ENTITIES) :
          /\ (Pushed(k) /\ raised' = "none" /\ WISER_ENTITIES'[k] # WISER_ENTITIES[k])
                => k \in notified'
          /\ (CommandEnds(k) /\ co'.wrote) => k \in notified']_vars

\* an identifier of the envelope of the step is the entity's
PushMatches(k) ==
    /\ Pushed(k)
    /\ \E key \in {"load", "hvacgroup"} :
          CarriesId(received', key, WISER_ENTITIES[k].wiser_id)

\* the step is the answer to the read of entity k's full refresh
RefreshAnswered(k) ==
    Answered /\ co.op = "async_update" /\ co.self = k /\ reply'.kind = "result"

\* the step is one of a command called on entity k
CommandStep(k) ==
    /\ event' = "coroutine" /\ co'.self = k /\ co'.op # "async_update"

\* C18 (as claimed): a field of an entity changes only in the step that
\* answers its full refresh or in a push-update of an event whose identifier
\* is the entity's; no command writes a field.
C18_OnlyRefreshAndPushWrite ==
    [][\A k \in 1..Len(WISER_ENTITIES) :
          WISER_ENTITIES'[k] # WISER_ENTITIES[k] =>
             RefreshAnswered(k) \/ PushMatches(k)]_vars

\* C18 (amended): a field of an entity changes only in the step that answers
\* its full refresh, in a push-update of an event whose identifier is the
\* entity's, or in a step of a command called on that entity; the registry
\* keeps its entities.
C18_OnlyOwnUpdatesAndCommandsWrite ==
    [][/\ Len(WISER_ENTITIES') = Len(WISER_ENTITIES)
       /\ \A k \in 1..Len(WISER_ENTITIES) :
             WISER_ENTITIES'[k] # WISER_ENTITIES[k] =>
                RefreshAnswered(k) \/ PushMatches(k) \/ CommandStep(k)]_vars

\* C18 witness: async_open_cover ended on a cover that a push event had left
\* at position 75: the command wrote the echoed position 100.
C18_Witness ==
    /\ co.op = "async_open_cover" /\ co.at = "done" /\ co.wrote
    /\ event = "coroutine"
    /\ WISER_ENTITIES[co.self].position = 100 * 100
    /\ WISER_ENTITIES[co.self].is_partially_opened
    /\ reply.data.target_state.level = 0

\* the fields both update entry points write all come from the state st
WrittenFrom(e, st) ==
    CASE e.kind = "cover" ->
            /\ {"level", "moving"} \subseteq DOMAIN st
            /\ 100 * 100 - e.position = st.level
            /\ e.is_opening = (st.moving = "up")
            /\ e.is_closing = (st.moving = "down")
            /\ e.is_opened = (st.level <= 0)
            /\ e.is_closed = (st.level >= 10000)
            /\ e.is_partially_opened = (0 < st.level /\ st.level < 10000)
      [] e.kind = "light" ->
            /\ "bri" \in DOMAIN st
            /\ e.brightness = (IF st.bri = None THEN 0 ELSE 100 * st.bri)
            /\ e.is_on = (IF st.bri # None /\ st.bri > 0 THEN "True" ELSE "False")
      [] e.kind = "climate" ->
            /\ HvacStateKeys \subseteq DOMAIN st
            /\ e.current_temperature = st.ambient_temperature
            /\ e.target_temperature = st.target_temperature
            /\ e.hvac_mode = (IF st.on THEN "heat" ELSE "off")
            /\ e.hvac_action = (IF st.heating_cooling_level > 0 THEN "heating"
                                ELSE "idle")

\* C19 (as claimed): a push-update and the answer of a full refresh each make
\* all their writes in one step, whatever the interleaving, so that after a
\* step in which one of them wrote, the entity's state fields all come from
\* that one update: none is left over from an earlier refresh or push event.
C19_UpdatesWriteAllOrNothing ==
    [][\A k \in 1..Len(WISER_ENTITIES) :
          /\ (Pushed(k) /\ WISER_ENTITIES'[k] # WISER_ENTITIES[k]) =>
                WrittenFrom(WISER_ENTITIES'[k], PushedState(WISER_ENTITIES[k].kind))
          /\ (RefreshEnds(k) /\ WISER_ENTITIES'[k] # WISER_ENTITIES[k]) =>
                WrittenFrom(WISER_ENTITIES'[k], reply'.data.state)]_vars

----------------------------------------------------------------------------
(* Claims about the setup of the integration, checked under SpecSetup *)

\* every platform's setup has ended, having registered its entities or raised
RegistrationOver == \A p \in PLATFORMS : platforms[p] \in {"done", "failed"}

\* the step is one of the supervisor task
SupervisorStep == connects' # connects \/ Routed

\* C20: within one setup the supervisor task exists only when the setup of
\* every platform (covers, lights, HVAC groups) has ended; the task connects
\* and routes only then, and from its creation on the registry keeps the
\* entities it has, in their order: no push event is routed against a
\* registry that setup is still filling.
C20_RegistrationBeforeSupervisor ==
    [][/\ setup' = "returned" => RegistrationOver'
       /\ SupervisorStep => setup = "returned" /\ RegistrationOver
       /\ setup = "returned" =>
             /\ platforms' = platforms
             /\ Len(WISER_ENTITIES') = Len(WISER_ENTITIES)
             /\ \A k \in 1..Len(WISER_ENTITIES) :
                   /\ WISER_ENTITIES'[k].kind = WISER_ENTITIES[k].kind
                   /\ WISER_ENTITIES'[k].wiser_id = WISER_ENTITIES[k].wiser_id]_vars

\* C20 witness: the three platforms have returned, two of them having
\* registered an entity each, the task was created, and a push event was
\* routed to the entity registered last.
C20_Witness ==
    /\ setup = "returned" /\ \A p \in PLATFORMS : platforms[p] = "done"
    /\ Len(WISER_ENTITIES) = 2 /\ WISER_ENTITIES[1].kind # WISER_ENTITIES[2].kind
    /\ event = "message" /\ invoked = 2

----------------------------------------------------------------------------
(* Claims about reloads and about the state of an entity after a command *)

\* the step ends the setup routine of platform p
RoutineReturns(p) == platforms[p] = "requested" /\ platforms'[p] = "done"

\* what the step appends to the registry
Appended == SubSeq(WISER_ENTITIES', Len(WISER_ENTITIES) + 1, Len(WISER_ENTITIES'))

\* the fields a constructed entity of this kind has
FieldsOf(kind) ==
    IF kind = "cover" THEN DOMAIN FellerCover(Motor(1))
    ELSE IF kind = "light" THEN DOMAIN FellerLight(Light(1, "dim"))
    ELSE DOMAIN FellerHvacGroup(Group(1))

\* C21: the three setup routines do not race. Under every interleaving, no
\* step removes, moves or replaces the identity of a registered handle; the
\* step that ends a routine appends exactly the handles the routine made of
\* the listing, each once, and only that step appends; so once all three
\* have ended the registry holds every handle each of them created, none
\* lost and none twice. A lookup that runs in between finds only a complete
\* handle, registered by a routine that has ended.
C21_RegistrationDoesNotRace ==
    [][/\ Len(WISER_ENTITIES') >= Len(WISER_ENTITIES)
       /\ \A k \in 1..Len(WISER_ENTITIES) :
             /\ WISER_ENTITIES'[k].kind = WISER_ENTITIES[k].kind
             /\ WISER_ENTITIES'[k].wiser_id = WISER_ENTITIES[k].wiser_id
             /\ generation'[k] = generation[k]
       /\ \A p \in PLATFORMS :
             RoutineReturns(p) =>
                /\ Handles(p, Current) = {}
                /\ \E v \in Inventories :
                      Appended = PlatformEntities(p, v.loads, v.groups)
                /\ \A a, b \in 1..Len(Appended) :
                      a # b => Appended[a].wiser_id # Appended[b].wiser_id
                /\ \A k \in Len(WISER_ENTITIES) + 1..Len(WISER_ENTITIES') :
                      generation'[k] = Current
       /\ (\A p \in PLATFORMS : ~RoutineReturns(p)) => Appended = <<>>
       /\ (Routed /\ invoked' # 0) =>
             /\ DOMAIN WISER_ENTITIES[invoked'] = FieldsOf(WISER_ENTITIES[invoked'].kind)
             /\ \/ generation[invoked'] < Current
                \/ platforms[WISER_ENTITIES[invoked'].kind] = "done"
      ]_vars

\* a second setup with one routine ended and another suspended at its list
\* request, when a push event was routed to a handle the ended routine
\* registered
C21_Witness ==
    /\ setup = "forwarding" /\ tasks = 1
    /\ \E q \in PLATFORMS : platforms[q] = "requested"
    /\ event = "message" /\ invoked # 0
    /\ generation[invoked] = 2
    /\ platforms[WISER_ENTITIES[invoked].kind] = "done"

\* the envelope is an event of the kind's key alone, with identifier N and a
\* state holding every field the kind reads, the `fading` flag not set
EventFor(m, kind, N) ==
    /\ DOMAIN m = {KindKey(kind)}
    /\ CarriesId(m, KindKey(kind), N)
    /\ ~MissingExpectedKey(kind, m)
    /\ ~FadingFlagSet(m[KindKey(kind)].state)

\* C22 (as claimed): an `hvacgroup` event with identifier N and a valid state
\* has the push-update of the registered HVAC group N called and its fields
\* written from the state, whatever else the registry holds, a cover or a
\* light with the same identifier N included; and a `load` event with
\* identifier N updates the cover or light N when an HVAC group N is
\* registered too.
C22_EventReachesItsKind ==
    [][\A k \in 1..Len(WISER_ENTITIES) :
          (Routed /\ EventFor(received', WISER_ENTITIES[k].kind,
                              WISER_ENTITIES[k].wiser_id)) =>
             /\ invoked' = k
             /\ WrittenFrom(WISER_ENTITIES'[k], PushedState(WISER_ENTITIES[k].kind))
      ]_vars

\* C23 (as claimed): whatever setups and unloads have taken place, no two
\* entities of the registry stand for the same device, an unload leaves no
\* entity of the unloaded integration in the registry, and a push event is
\* handed to an entity that the most recent setup registered.
C23_OneHandlePerDevice ==
    [][/\ \A a, b \in 1..Len(WISER_ENTITIES') :
             a # b => \/ WISER_ENTITIES'[a].kind # WISER_ENTITIES'[b].kind
                      \/ WISER_ENTITIES'[a].wiser_id # WISER_ENTITIES'[b].wiser_id
       /\ setup' = "unloaded" => WISER_ENTITIES' = <<>>
       /\ (Routed /\ invoked' # 0) =>
             setup # "unloaded" /\ generation[invoked'] = Current
      ]_vars

\* C24 (as claimed): whatever setups and unloads have taken place, at most
\* one supervisor task is running, each task holding a connection of its own
\* on which the vendor pushes every event.
C24_AtMostOneSupervisor == tasks <= 1

\* no method of entity k is suspended at an await or has raised
Settled(k) == co.op = "none" \/ co.self # k \/ co.at = "done"

\* C25 (as claimed): for a cover no method of which is under way, whenever
\* position is set the flags agree with it (position in hundredths):
\* is_opened iff position >= 100, is_closed iff position <= 0,
\* is_partially_opened otherwise; and is_opening and is_closing are never
\* both true.
C25_CoverFlagsAgree ==
    \A k \in 1..Len(WISER_ENTITIES) :
        LET e == WISER_ENTITIES[k] IN
        (e.kind = "cover" /\ Settled(k) /\ e.position # None) =>
            /\ e.is_opened = (e.position >= 100 * 100)
            /\ e.is_closed = (e.position <= 0)
            /\ e.is_partially_opened = (0 < e.position /\ e.position < 100 * 100)
            /\ ~(e.is_opening /\ e.is_closing)

\* the step is an API call of a command on entity k raising
CommandFails(k) ==
    Answered /\ co.op # "async_update" /\ co.self = k /\ reply'.kind = "exception"

\* C26 (as claimed): when an API call of a command raises, the command raises
\* the same exception to its caller and has written no field of its entity,
\* neither before the call nor in this step: a failed open, close or
\* set-position has not touched position, a failed turn-on or turn-off has
\* not touched brightness or is_on.
C26_FailedCommandWritesNothing ==
    [][\A k \in 1..Len(WISER_ENTITIES) :
          CommandFails(k) =>
             /\ co'.at = "raised" /\ co'.raised = reply'.type
             /\ ~co'.wrote]_vars

============================================================================
